---- MODULE Spec2Model ----
(***************************************************************************)
(* A model of haproxy.rs: the cursor splitter (src/slicer.rs), the log     *)
(* entry parser (src/entry.rs) and the haproxy-cut command line tool       *)
(* (src/bin/haproxy-cut.rs).                                               *)
(*                                                                         *)
(* A byte is a one-character string, a byte slice (&[u8]) and a &str are   *)
(* sequences of them.                                                      *)
(***************************************************************************)
EXTENDS Integers, Sequences, FiniteSets, TLC

VARIABLES
    pc,           \* main: "args" | "loop" | "exit" | "done" | "panicked"
    argv,         \* the command line as given: raw -f and -d strings, flags
    args,         \* main's `args` once Docopt has decoded argv
    eof,          \* the reader has nothing more to give
    line_buffer,  \* main's line_buffer; the buffer handed to from_bytes
    stdout,       \* every byte written to stdout, in order
    stderr,       \* every byte written to stderr, in order
    written,      \* the bytes the last loop iteration wrote to stdout
    input,        \* the lines read so far, in order
    result,       \* the value the last library call returned
    slicer,       \* a Slicer under test
    lastOp        \* the last Slicer call: its name, argument and the buffer before

vars ==
    <<pc, argv, args, eof, line_buffer, stdout, stderr, written, input,
      result, slicer, lastOp>>

----------------------------------------------------------------------------
(* Bytes *)

NL == "\n"
TAB == "\t"
QUOTE == "\""
SP == " "

None == [none |-> TRUE]

starts_with(s, p) ==
    /\ Len(p) <= Len(s)
    /\ SubSeq(s, 1, Len(p)) = p

ends_with(s, p) ==
    /\ Len(p) <= Len(s)
    /\ SubSeq(s, Len(s) - Len(p) + 1, Len(s)) = p

----------------------------------------------------------------------------
(* src/slicer.rs *)

ExpectedToken(token) == [kind |-> "ExpectedToken", token |-> token]
UnexpectedTokens == [kind |-> "UnexpectedTokens", token |-> ""]

Slicer_new(s) == [buffer |-> s]

\* The index of the last byte of buffer equal to delim, 0 when there is none: the
\* for loop running on to the end instead of returning at the first match.
LastIndex(buffer, delim) ==
    IF \E i \in 1..Len(buffer) : buffer[i] = delim
    THEN CHOOSE i \in 1..Len(buffer) :
             /\ buffer[i] = delim
             /\ \A j \in (i + 1)..Len(buffer) : buffer[j] # delim
    ELSE 0

\* The index of the first byte of buffer equal to delim, 0 when there is none:
\* the for loop of slice_to, which returns at the first match.
FirstIndex(buffer, delim) ==
    IF \E i \in 1..Len(buffer) : buffer[i] = delim
    THEN CHOOSE i \in 1..Len(buffer) :
             /\ buffer[i] = delim
             /\ \A j \in 1..(i - 1) : buffer[j] # delim
    ELSE 0

\* A Slicer method returns the Result and the Slicer as the call left it.
SliceOk(ret, buffer) ==
    [ok |-> TRUE, ret |-> ret, err |-> None, slicer |-> [buffer |-> buffer]]

SliceErr(err, buffer) ==
    [ok |-> FALSE, ret |-> <<>>, err |-> err, slicer |-> [buffer |-> buffer]]

\* slice_to returning the delimiter with the bytes before it.
slice_to_inclusive(self, delim) ==
    LET i == FirstIndex(self.buffer, delim)
    IN  IF i # 0
        THEN SliceOk(SubSeq(self.buffer, 1, i),
                     SubSeq(self.buffer, i + 1, Len(self.buffer)))
        ELSE SliceErr(ExpectedToken(delim), self.buffer)

\* slice_to reporting a miss as UnexpectedTokens.
slice_to_unexpected(self, delim) ==
    LET i == FirstIndex(self.buffer, delim)
    IN  IF i # 0
        THEN SliceOk(SubSeq(self.buffer, 1, i - 1),
                     SubSeq(self.buffer, i + 1, Len(self.buffer)))
        ELSE SliceErr(UnexpectedTokens, self.buffer)

slice_to(self, delim) ==
    LET i == FirstIndex(self.buffer, delim)
    IN  IF i # 0
        THEN SliceOk(SubSeq(self.buffer, 1, i - 1),
                     SubSeq(self.buffer, i + 1, Len(self.buffer)))
        ELSE SliceErr(ExpectedToken(delim), self.buffer)

\* slice_to_or_remainder that returns the remainder and leaves it in the buffer.
slice_to_or_remainder_kept(self, delim) ==
    LET r == slice_to(self, delim)
    IN  IF r.ok
        THEN r
        ELSE SliceOk(self.buffer, self.buffer)

slice_to_or_remainder(self, delim) ==
    LET r == slice_to(self, delim)
    IN  IF r.ok
        THEN r
        ELSE SliceOk(self.buffer, <<>>)

\* discard without the starts_with test: it skips as many bytes as s has.
discard_unchecked(self, s) ==
    IF Len(s) > Len(self.buffer)
    THEN SliceErr(UnexpectedTokens, self.buffer)
    ELSE SliceOk(<<>>, SubSeq(self.buffer, Len(s) + 1, Len(self.buffer)))

\* The bytes buffer and s share at their start.
RECURSIVE SharedPrefix(_, _)
SharedPrefix(buffer, s) ==
    IF buffer # <<>> /\ s # <<>> /\ Head(buffer) = Head(s)
    THEN <<Head(s)>> \o SharedPrefix(Tail(buffer), Tail(s))
    ELSE <<>>

\* discard comparing byte by byte and consuming as it goes: a failed call has
\* skipped the bytes that did match.
discard_partial(self, s) ==
    IF ~starts_with(self.buffer, s)
    THEN SliceErr(UnexpectedTokens,
                  SubSeq(self.buffer, Len(SharedPrefix(self.buffer, s)) + 1,
                         Len(self.buffer)))
    ELSE SliceOk(<<>>, SubSeq(self.buffer, Len(s) + 1, Len(self.buffer)))

discard(self, s) ==
    IF ~starts_with(self.buffer, s)
    THEN SliceErr(UnexpectedTokens, self.buffer)
    ELSE SliceOk(<<>>, SubSeq(self.buffer, Len(s) + 1, Len(self.buffer)))

----------------------------------------------------------------------------
(* src/entry.rs *)

\* impl From<SliceError> for Error
FromSliceError(err) == [variant |-> "SliceError", inner |-> err]

Ok(value) == [ok |-> TRUE, value |-> value, err |-> None]
Err(err) == [ok |-> FALSE, value |-> None, err |-> err]

\* The members of struct LogEntry.
FixedMembers ==
    {"process_name", "pid", "client_ip", "client_port", "accept_date",
     "frontend_name", "backend_name", "server_name", "request_time",
     "queue_time", "connect_time", "response_time", "total_time",
     "status_code", "bytes_read", "captured_request_cookie",
     "captured_response_cookie", "termination_state", "active_connections",
     "frontend_connections", "backend_connections", "server_connections",
     "retried_connections", "server_queue", "backend_queue"}

LogEntryMembers == FixedMembers \cup {"captures", "http_request"}

Take(member, delim) == [op |-> "slice_to", member |-> member, arg |-> delim]
Skip(literal) == [op |-> "discard", member |-> "", arg |-> literal]

\* The statements of from_bytes up to the capture blocks, one per line of the
\* source, each ending in `?`.
FixedSteps ==
    << Take("process_name", "["),
       Take("pid", "]"),
       Skip(<<":", " ">>),
       Take("client_ip", ":"),
       Take("client_port", " "),
       Skip(<<"[">>),
       Take("accept_date", "]"),
       Skip(<<" ">>),
       Take("frontend_name", " "),
       Take("backend_name", "/"),
       Take("server_name", " "),
       Take("request_time", "/"),
       Take("queue_time", "/"),
       Take("connect_time", "/"),
       Take("response_time", "/"),
       Take("total_time", " "),
       Take("status_code", " "),
       Take("bytes_read", " "),
       Take("captured_request_cookie", " "),
       Take("captured_response_cookie", " "),
       Take("termination_state", " "),
       Take("active_connections", "/"),
       Take("frontend_connections", "/"),
       Take("backend_connections", "/"),
       Take("server_connections", "/"),
       Take("retried_connections", " "),
       Take("server_queue", "/"),
       Take("backend_queue", " ") >>

\* One statement: the Slicer call, and the local it binds.
RunStep(step, s, locals) ==
    LET r == IF step.op = "slice_to"
             THEN slice_to(s, step.arg)
             ELSE discard(s, step.arg)
    IN  [ok |-> r.ok,
         err |-> r.err,
         slicer |-> r.slicer,
         locals |-> IF r.ok /\ step.op = "slice_to"
                    THEN locals @@ (step.member :> r.ret)
                    ELSE locals]

\* Statements k.. of the fixed prefix; `?` returns at the first Err.
RECURSIVE RunFixed(_, _, _)
RunFixed(k, s, locals) ==
    IF k > Len(FixedSteps)
    THEN [ok |-> TRUE, err |-> None, slicer |-> s, locals |-> locals]
    ELSE LET r == RunStep(FixedSteps[k], s, locals)
         IN  IF ~r.ok
             THEN r
             ELSE RunFixed(k + 1, r.slicer, r.locals)

\* CaptureTurn filling the slots from the last one down.
CaptureTurnReversed(i, s, captures) ==
    LET curly_discard_result == discard(s, <<"{">>)
    IN  IF curly_discard_result.ok
        THEN LET c == slice_to(curly_discard_result.slicer, "}")
             IN  IF ~c.ok
                 THEN [ok |-> FALSE, err |-> c.err, slicer |-> c.slicer,
                       captures |-> captures, next |-> FALSE]
                 ELSE LET d == discard(c.slicer, <<" ">>)
                      IN  IF ~d.ok
                          THEN [ok |-> FALSE, err |-> d.err, slicer |-> d.slicer,
                                captures |-> captures, next |-> FALSE]
                          ELSE [ok |-> TRUE, err |-> None, slicer |-> d.slicer,
                                captures |-> [captures EXCEPT ![2 - i] = c.ret],
                                next |-> TRUE]
        ELSE [ok |-> TRUE, err |-> None, slicer |-> s,
              captures |-> captures, next |-> FALSE]

\* CaptureTurn taking a block that is opened and not closed by '} ' as no block:
\* the loop breaks without an error, the cursor back at the '{'.
CaptureTurnLenient(i, s, captures) ==
    LET curly_discard_result == discard(s, <<"{">>)
    IN  IF curly_discard_result.ok
        THEN LET c == slice_to(curly_discard_result.slicer, "}")
             IN  IF ~c.ok
                 THEN [ok |-> TRUE, err |-> None, slicer |-> s,
                       captures |-> captures, next |-> FALSE]
                 ELSE LET d == discard(c.slicer, <<" ">>)
                      IN  IF ~d.ok
                          THEN [ok |-> TRUE, err |-> None, slicer |-> s,
                                captures |-> captures, next |-> FALSE]
                          ELSE [ok |-> TRUE, err |-> None, slicer |-> d.slicer,
                                captures |-> [captures EXCEPT ![i + 1] = c.ret],
                                next |-> TRUE]
        ELSE [ok |-> TRUE, err |-> None, slicer |-> s,
              captures |-> captures, next |-> FALSE]

\* One turn of `for i in 0..2`: captures is the array, i the 0-based index.
\* next tells whether the loop goes on (the block was read) or breaks.
CaptureTurn(i, s, captures) ==
    LET curly_discard_result == discard(s, <<"{">>)
    IN  IF curly_discard_result.ok
        THEN LET c == slice_to(curly_discard_result.slicer, "}")
             IN  IF ~c.ok
                 THEN [ok |-> FALSE, err |-> c.err, slicer |-> c.slicer,
                       captures |-> captures, next |-> FALSE]
                 ELSE LET d == discard(c.slicer, <<" ">>)
                      IN  IF ~d.ok
                          THEN [ok |-> FALSE, err |-> d.err, slicer |-> d.slicer,
                                captures |-> captures, next |-> FALSE]
                          ELSE [ok |-> TRUE, err |-> None, slicer |-> d.slicer,
                                captures |-> [captures EXCEPT ![i + 1] = c.ret],
                                next |-> TRUE]
        ELSE [ok |-> TRUE, err |-> None, slicer |-> s,
              captures |-> captures, next |-> FALSE]

CaptureSlots == 2

RECURSIVE RunCaptures(_, _, _)
RunCaptures(i, s, captures) ==
    IF i >= CaptureSlots
    THEN [ok |-> TRUE, err |-> None, slicer |-> s, captures |-> captures]
    ELSE LET t == CaptureTurn(i, s, captures)
         IN  IF t.ok /\ t.next
             THEN RunCaptures(i + 1, t.slicer, t.captures)
             ELSE [ok |-> t.ok, err |-> t.err, slicer |-> t.slicer,
                   captures |-> t.captures]

\* The request line: the mandatory opening quote, then up to the closing one.
RequestLine(s) ==
    LET q == discard(s, <<QUOTE>>)
    IN  IF ~q.ok
        THEN q
        ELSE slice_to_or_remainder(q.slicer, QUOTE)

\* The struct literal that ends from_bytes.
NewLogEntry(locals, captures, http_request) ==
    locals @@ ("captures" :> captures) @@ ("http_request" :> http_request)

from_bytes(buf) ==
    LET fixed == RunFixed(1, Slicer_new(buf), <<>>)
    IN  IF ~fixed.ok
        THEN Err(FromSliceError(fixed.err))
        ELSE LET caps == RunCaptures(0, fixed.slicer, << <<>>, <<>> >>)
             IN  IF ~caps.ok
                 THEN Err(FromSliceError(caps.err))
                 ELSE LET req == RequestLine(caps.slicer)
                      IN  IF ~req.ok
                          THEN Err(FromSliceError(req.err))
                          ELSE Ok(NewLogEntry(fixed.locals, caps.captures, req.ret))

\* slice.split(|&c| c == sep): the runs between the occurrences of sep.
RECURSIVE split_byte(_, _)
split_byte(s, sep) ==
    LET i == FirstIndex(s, sep)
    IN  IF i = 0
        THEN <<s>>
        ELSE <<SubSeq(s, 1, i - 1)>> \o split_byte(SubSeq(s, i + 1, Len(s)), sep)

\* An Option<&[u8]>, or the panic of the call that was to return one.
Some(item) == [some |-> TRUE, item |-> item, panic |-> FALSE]
Nothing == [some |-> FALSE, item |-> <<>>, panic |-> FALSE]
Panic == [some |-> FALSE, item |-> <<>>, panic |-> TRUE]

\* Iterator::nth with a 0-based n.
nth(items, n) == IF n < Len(items) THEN Some(items[n + 1]) ELSE Nothing

unwrap_or(option, default) == IF option.some THEN option.item ELSE default

http_method(self) == nth(split_byte(self["http_request"], SP), 0)
http_uri(self) == nth(split_byte(self["http_request"], SP), 1)
http_version(self) == nth(split_byte(self["http_request"], SP), 2)

\* self.captures[i] panics when i is not an index of the array.
captured_header(self, i, j) ==
    IF i >= Len(self["captures"])
    THEN Panic
    ELSE nth(split_byte(self["captures"][i + 1], "|"), j)

----------------------------------------------------------------------------
(* src/bin/haproxy-cut.rs: Field *)

Field(tag) == [tag |-> tag, i |-> 0, j |-> 0]
CapturedHeader(i, j) == [tag |-> "CapturedHeader", i |-> i, j |-> j]

\* The arms of the match in Field::decode: the name, and the Field it gives.
FieldNames ==
    <<
       [field |-> "ProcessName",
        name |-> <<"p", "r", "o", "c", "e", "s", "s", "_", "n", "a", "m",
                 "e">>],
       [field |-> "ProcessId",
        name |-> <<"p", "i", "d">>],
       [field |-> "ClientIp",
        name |-> <<"c", "l", "i", "e", "n", "t", "_", "i", "p">>],
       [field |-> "ClientPort",
        name |-> <<"c", "l", "i", "e", "n", "t", "_", "p", "o", "r", "t">>],
       [field |-> "AcceptDate",
        name |-> <<"a", "c", "c", "e", "p", "t", "_", "d", "a", "t", "e">>],
       [field |-> "FrontendName",
        name |-> <<"f", "r", "o", "n", "t", "e", "n", "d", "_", "n", "a",
                 "m", "e">>],
       [field |-> "BackendName",
        name |-> <<"b", "a", "c", "k", "e", "n", "d", "_", "n", "a", "m",
                 "e">>],
       [field |-> "ServerName",
        name |-> <<"s", "e", "r", "v", "e", "r", "_", "n", "a", "m", "e">>],
       [field |-> "RequestTime",
        name |-> <<"T", "q">>],
       [field |-> "QueueTime",
        name |-> <<"T", "w">>],
       [field |-> "ConnectTime",
        name |-> <<"T", "c">>],
       [field |-> "ResponseTime",
        name |-> <<"T", "r">>],
       [field |-> "TotalTime",
        name |-> <<"T", "t">>],
       [field |-> "StatusCode",
        name |-> <<"s", "t", "a", "t", "u", "s", "_", "c", "o", "d", "e">>],
       [field |-> "BytesRead",
        name |-> <<"b", "y", "t", "e", "s", "_", "r", "e", "a", "d">>],
       [field |-> "CapturedRequestCookie",
        name |-> <<"c", "a", "p", "t", "u", "r", "e", "d", "_", "r", "e",
                 "q", "u", "e", "s", "t", "_", "c", "o", "o", "k", "i", "e">>],
       [field |-> "CapturedResponseCookie",
        name |-> <<"c", "a", "p", "t", "u", "r", "e", "d", "_", "r", "e",
                 "s", "p", "o", "n", "s", "e", "_", "c", "o", "o", "k", "i",
                 "e">>],
       [field |-> "TerminationState",
        name |-> <<"t", "e", "r", "m", "i", "n", "a", "t", "i", "o", "n",
                 "_", "s", "t", "a", "t", "e">>],
       [field |-> "ActiveConnections",
        name |-> <<"a", "c", "t", "c", "o", "n", "n">>],
       [field |-> "FrontendConnections",
        name |-> <<"f", "e", "c", "o", "n", "n">>],
       [field |-> "BackendConnections",
        name |-> <<"b", "e", "c", "o", "n", "n">>],
       [field |-> "ServerConnections",
        name |-> <<"s", "r", "v", "_", "c", "o", "n", "n">>],
       [field |-> "RetriedConnections",
        name |-> <<"r", "e", "t", "r", "i", "e", "s">>],
       [field |-> "ServerQueue",
        name |-> <<"s", "r", "v", "_", "q", "u", "e", "u", "e">>],
       [field |-> "BackendQueue",
        name |-> <<"b", "a", "c", "k", "e", "n", "d", "_", "q", "u", "e",
                 "u", "e">>],
       [field |-> "HttpRequest",
        name |-> <<"h", "t", "t", "p", "_", "r", "e", "q", "u", "e", "s",
                 "t">>],
       [field |-> "HttpMethod",
        name |-> <<"h", "t", "t", "p", "_", "m", "e", "t", "h", "o", "d">>],
       [field |-> "HttpUri",
        name |-> <<"h", "t", "t", "p", "_", "u", "r", "i">>],
       [field |-> "HttpVersion",
        name |-> <<"h", "t", "t", "p", "_", "v", "e", "r", "s", "i", "o",
                 "n">>]
    >>

\* The arms of the match in extract_content_from that read a member of the entry.
MemberOf ==
    (  "ProcessName" :> "process_name"
    @@ "ProcessId" :> "pid"
    @@ "ClientIp" :> "client_ip"
    @@ "ClientPort" :> "client_port"
    @@ "AcceptDate" :> "accept_date"
    @@ "FrontendName" :> "frontend_name"
    @@ "BackendName" :> "backend_name"
    @@ "ServerName" :> "server_name"
    @@ "RequestTime" :> "request_time"
    @@ "QueueTime" :> "queue_time"
    @@ "ConnectTime" :> "connect_time"
    @@ "ResponseTime" :> "response_time"
    @@ "TotalTime" :> "total_time"
    @@ "StatusCode" :> "status_code"
    @@ "BytesRead" :> "bytes_read"
    @@ "CapturedRequestCookie" :> "captured_request_cookie"
    @@ "CapturedResponseCookie" :> "captured_response_cookie"
    @@ "TerminationState" :> "termination_state"
    @@ "ActiveConnections" :> "active_connections"
    @@ "FrontendConnections" :> "frontend_connections"
    @@ "BackendConnections" :> "backend_connections"
    @@ "ServerConnections" :> "server_connections"
    @@ "RetriedConnections" :> "retried_connections"
    @@ "ServerQueue" :> "server_queue"
    @@ "BackendQueue" :> "backend_queue"
    @@ "HttpRequest" :> "http_request" )

Prefix == <<"c", "a", "p", "t", "u", "r", "e", "d", "_", "h", "e", "a", "d", "e", "r", "[">>

\* str::trim_start_matches: pat taken off the front for as long as it is there.
RECURSIVE trim_start_matches(_, _)
trim_start_matches(s, pat) ==
    IF starts_with(s, pat)
    THEN trim_start_matches(SubSeq(s, Len(pat) + 1, Len(s)), pat)
    ELSE s

\* str::trim_end_matches with a char: c taken off the end for as long as it is there.
RECURSIVE trim_end_matches(_, _)
trim_end_matches(s, c) ==
    IF ends_with(s, <<c>>)
    THEN trim_end_matches(SubSeq(s, 1, Len(s) - 1), c)
    ELSE s

\* The index where pat first occurs in s, 0 when it does not.
Find(s, pat) ==
    LET at == { i \in 1..(Len(s) - Len(pat) + 1) : SubSeq(s, i, i + Len(pat) - 1) = pat }
    IN  IF at = {} THEN 0 ELSE CHOOSE i \in at : \A k \in at : i <= k

\* str::split with a str: the runs between the occurrences of pat, left to right.
RECURSIVE split(_, _)
split(s, pat) ==
    LET i == Find(s, pat)
    IN  IF i = 0
        THEN <<s>>
        ELSE <<SubSeq(s, 1, i - 1)>> \o split(SubSeq(s, i + Len(pat), Len(s)), pat)

Digits == ( "0" :> 0 @@ "1" :> 1 @@ "2" :> 2 @@ "3" :> 3 @@ "4" :> 4
         @@ "5" :> 5 @@ "6" :> 6 @@ "7" :> 7 @@ "8" :> 8 @@ "9" :> 9 )

RECURSIVE Decimal(_)
Decimal(digits) ==
    IF digits = <<>>
    THEN 0
    ELSE 10 * Decimal(SubSeq(digits, 1, Len(digits) - 1)) + Digits[digits[Len(digits)]]

\* str::parse::<usize>: an optional '+', then decimal digits, at least one. (The
\* strings of this model are too short to overflow a usize.)
parse(s) ==
    LET digits == IF s # <<>> /\ s[1] = "+" THEN Tail(s) ELSE s
    IN  IF s = <<>>
        THEN Err("Empty")
        ELSE IF digits = <<>> \/ \E k \in 1..Len(digits) : digits[k] \notin DOMAIN Digits
        THEN Err("InvalidDigit")
        ELSE Ok(Decimal(digits))

\* .map(|s| s.parse()).collect(): the values, or the first error from the left.
RECURSIVE collect(_)
collect(items) ==
    IF items = <<>>
    THEN Ok(<<>>)
    ELSE LET first == parse(Head(items))
             rest == collect(Tail(items))
         IN  IF ~first.ok THEN first
             ELSE IF ~rest.ok THEN rest
             ELSE Ok(<<first.value>> \o rest.value)

\* The last arm without the test of the first index.
decode_captured_header_unbounded(field) ==
    IF starts_with(field, Prefix)
    THEN IF ~ends_with(field, <<"]">>)
         THEN Err(<<"captured_header: expected final ]">>)
         ELSE LET parse_result ==
                      collect(split(trim_end_matches(trim_start_matches(field, Prefix),
                                                     "]"),
                                    <<"]", "[">>))
              IN  IF ~parse_result.ok
                  THEN Err(<<"captured_header: could not parse index", parse_result.err>>)
                  ELSE IF Len(parse_result.value) # 2
                  THEN Err(<<"captured_header: not enough indices">>)
                  ELSE Ok(CapturedHeader(parse_result.value[1], parse_result.value[2]))
    ELSE Err(<<"unknown field", field>>)

\* The last arm of the match in Field::decode.
decode_captured_header(field) ==
    IF starts_with(field, Prefix)
    THEN IF ~ends_with(field, <<"]">>)
         THEN Err(<<"captured_header: expected final ]">>)
         ELSE LET parse_result ==
                      collect(split(trim_end_matches(trim_start_matches(field, Prefix),
                                                     "]"),
                                    <<"]", "[">>))
              IN  IF ~parse_result.ok
                  THEN Err(<<"captured_header: could not parse index", parse_result.err>>)
                  ELSE IF Len(parse_result.value) # 2
                  THEN Err(<<"captured_header: not enough indices">>)
                  ELSE IF parse_result.value[1] > 1
                  THEN Err(<<"captured_header: the first index must be 0 or 1">>)
                  ELSE Ok(CapturedHeader(parse_result.value[1], parse_result.value[2]))
    ELSE Err(<<"unknown field", field>>)

Field_decode(field) ==
    IF \E k \in 1..Len(FieldNames) : FieldNames[k].name = field
    THEN Ok(Field(FieldNames[CHOOSE k \in 1..Len(FieldNames) :
                                 FieldNames[k].name = field].field))
    ELSE decode_captured_header(field)

\* The bytes extract_content_from returns, or the panic that ends it.
Returns(bytes) == [panic |-> FALSE, bytes |-> bytes]
Panics == [panic |-> TRUE, bytes |-> <<>>]

extract_content_from(self, entry) ==
    CASE self.tag \in DOMAIN MemberOf -> Returns(entry[MemberOf[self.tag]])
      [] self.tag = "HttpMethod" -> Returns(unwrap_or(http_method(entry), <<>>))
      [] self.tag = "HttpUri" -> Returns(unwrap_or(http_uri(entry), <<>>))
      [] self.tag = "HttpVersion" -> Returns(unwrap_or(http_version(entry), <<>>))
      [] self.tag = "CapturedHeader" ->
             IF captured_header(entry, self.i, self.j).panic
             THEN Panics
             ELSE Returns(unwrap_or(captured_header(entry, self.i, self.j), <<>>))

\* Fields::decode: the Fields of the names between the commas, or the first error.
RECURSIVE decode_each(_)
decode_each(field_names) ==
    IF field_names = <<>>
    THEN Ok(<<>>)
    ELSE LET field == Field_decode(Head(field_names))
         IN  IF ~field.ok
             THEN field
             ELSE LET rest == decode_each(Tail(field_names))
                  IN  IF ~rest.ok THEN rest ELSE Ok(<<field.value>> \o rest.value)

\* Fields::decode passing over the empty names between the commas.
Fields_decode_skipping_empty(field_names) ==
    IF field_names # <<>>
    THEN decode_each(SelectSeq(split(field_names, <<",">>), LAMBDA t : t # <<>>))
    ELSE Ok(<<>>)

Fields_decode(field_names) ==
    IF field_names # <<>>
    THEN decode_each(split(field_names, <<",">>))
    ELSE Ok(<<>>)

----------------------------------------------------------------------------
(* src/bin/haproxy-cut.rs: main *)

\* What println!("{}", FIELDS) writes: the help text, here its first and last
\* byte with a token for the text between them, and println's newline.
FIELDS == <<NL, "The following field names ...", NL>>

\* let delimiter = if args.flag_delimiter.is_empty() { b"\t" } else { ... }
Delimiter(flag_delimiter) ==
    IF flag_delimiter = <<>> THEN <<TAB>> ELSE flag_delimiter

\* Separator writing the delimiter before the first field too.
SeparatorAlways(i, delimiter) == delimiter

\* if i != 0 { stdout.write_all(delimiter) }
Separator(i, delimiter) == IF i # 0 THEN delimiter ELSE <<>>

\* The for loop over flag_fields.iter().enumerate() from the 0-based i on: the
\* bytes it writes, and whether an extraction panicked and cut it short.
RECURSIVE WriteFields(_, _, _, _)
WriteFields(fields, i, entry, delimiter) ==
    IF i >= Len(fields)
    THEN [out |-> <<>>, panicked |-> FALSE]
    ELSE LET content == extract_content_from(fields[i + 1], entry)
         IN  IF content.panic
             THEN [out |-> Separator(i, delimiter), panicked |-> TRUE]
             ELSE LET rest == WriteFields(fields, i + 1, entry, delimiter)
                  IN  [out |-> Separator(i, delimiter) \o content.bytes \o rest.out,
                       panicked |-> rest.panicked]

\* The arm Ok(entry) of the match on from_bytes: the fields, then the newline.
WriteLine(w) ==
    [out |-> IF w.panicked THEN w.out ELSE w.out \o <<NL>>,
     diag |-> <<>>,
     panicked |-> w.panicked]

\* MatchEntry echoing a rejected line whether or not --show-invalid is given.
MatchEntryEchoing(r, line, a) ==
    IF r.ok
    THEN WriteLine(WriteFields(a.flag_fields, 0, r.value, a.delimiter))
    ELSE [out |-> <<>>, diag |-> line, panicked |-> FALSE]

\* match LogEntry::from_bytes(&line_buffer), r being what from_bytes returned:
\* the bytes written to stdout and to stderr.
MatchEntry(r, line, a) ==
    IF r.ok
    THEN WriteLine(WriteFields(a.flag_fields, 0, r.value, a.delimiter))
    ELSE [out |-> <<>>,
          diag |-> IF a.flag_show_invalid THEN line ELSE <<>>,
          panicked |-> FALSE]

Decoded(fields) ==
    Ok([flag_fields |-> fields,
        delimiter |-> Delimiter(argv.flag_delimiter),
        flag_help_fields |-> argv.flag_help_fields,
        flag_show_invalid |-> argv.flag_show_invalid])

libVars == <<result, slicer, lastOp>>

\* Start going on with no fields when the field list does not decode.
StartSkippingErrors ==
    /\ pc = "args"
    /\ LET fields == Fields_decode(argv.flag_fields)
       IN  IF ~fields.ok
           THEN /\ args' = Decoded(<<>>)
                /\ pc' = "loop"
                /\ UNCHANGED stdout
           ELSE /\ args' = Decoded(fields.value)
                /\ IF argv.flag_help_fields
                   THEN pc' = "done" /\ stdout' = stdout \o FIELDS
                   ELSE pc' = "loop" /\ UNCHANGED stdout
    /\ UNCHANGED <<argv, eof, line_buffer, stderr, written, input, libVars>>

\* main up to its loop: Docopt decodes the arguments, Fields::decode among them,
\* and exits on an error; --help-fields prints FIELDS and returns.
Start ==
    /\ pc = "args"
    /\ LET fields == Fields_decode(argv.flag_fields)
       IN  IF ~fields.ok
           THEN /\ args' = Err(fields.err)
                /\ pc' = "exit"
                /\ UNCHANGED stdout
           ELSE /\ args' = Decoded(fields.value)
                /\ IF argv.flag_help_fields
                   THEN pc' = "done" /\ stdout' = stdout \o FIELDS
                   ELSE pc' = "loop" /\ UNCHANGED stdout
    /\ UNCHANGED <<argv, eof, line_buffer, stderr, written, input, libVars>>

----------------------------------------------------------------------------
(* Input lines *)

\* The fixed prefix of the sample line of entry.rs's tests, its fields cut short:
\* "haproxy[14389]: 10.0.1.2:33317 [06/Feb/2009:12:14:14.655] http-in static/srv1
\*  10/0/30/69/109 200 2750 cookie_in cookie_out ---- 1/1/1/1/0 0/0 ".
SamplePrefix ==
       <<"h", "[", "1", "4", "]", ":", SP>>
    \o <<"i", ":", "3", SP>>
    \o <<"[", "6", "/", "F", ":", "1", "]", SP>>
    \o <<"f", SP, "b", "/", "s", SP>>
    \o <<"1", "/", "0", "/", "3", "/", "6", "/", "9", SP>>
    \o <<"2", SP, "7", SP>>
    \o <<"c", "i", SP, "c", "o", SP>>
    \o <<"-", "-", SP>>
    \o <<"5", "/", "6", "/", "7", "/", "8", "/", "0", SP>>
    \o <<"q", "/", "r", SP>>

\* The same prefix with "] : " after the pid.
SpacedColonPrefix ==
    SubSeq(SamplePrefix, 1, 5) \o <<SP>> \o SubSeq(SamplePrefix, 6, Len(SamplePrefix))

\* Every field of the prefix empty.
EmptyFieldsPrefix ==
       <<"[", "]", ":", SP>>
    \o <<":", SP>>
    \o <<"[", "]", SP>>
    \o <<SP, "/", SP>>
    \o <<"/", "/", "/", "/", SP>>
    \o <<SP, SP>>
    \o <<SP, SP>>
    \o <<SP>>
    \o <<"/", "/", "/", "/", SP>>
    \o <<"/", SP>>

Delete(s, k) == SubSeq(s, 1, k - 1) \o SubSeq(s, k + 1, Len(s))
Replace(s, k, b) == [s EXCEPT ![k] = b]
Truncate(s, k) == SubSeq(s, 1, k - 1)
Insert(s, k, b) == SubSeq(s, 1, k - 1) \o <<b>> \o SubSeq(s, k, Len(s))

\* The sample prefix with one byte dropped, overwritten or doubled, or cut short.
DamagedPrefixes ==
    UNION { { Delete(SamplePrefix, k),
              Replace(SamplePrefix, k, "x"),
              Replace(SamplePrefix, k, SP),
              Insert(SamplePrefix, k, SamplePrefix[k]),
              Truncate(SamplePrefix, k) } : k \in 1..Len(SamplePrefix) }

Prefixes ==
    {SamplePrefix, SpacedColonPrefix, EmptyFieldsPrefix} \cup DamagedPrefixes

\* What may stand between the fixed prefix and the request line.
CaptureTails ==
    { <<>>,
      <<"{", "a", "|", "b", "}", SP>>,
      <<"{", "a", "|", "b", "}", SP, "{", "c", "}", SP>>,
      <<"{", "}", SP, "{", "}", SP>>,
      <<"{", "}", SP, "{", "c", "}", SP>>,
      <<"{", "a", "}", SP, "{", "b", "}", SP, "{", "c", "}", SP>>,
      <<"{", "a">>,
      <<"{", "a", "}">>,
      <<"{", "a", "}", "x", SP>>,
      <<"{", "a", "}", SP, "{", "b">>,
      <<"{", "a", "}", SP, "{", "b", "}">>,
      <<SP, "{", "a", "}", SP>>,
      <<"{", "a", "}", SP, SP>> }

\* The request line and what follows it, as read_until leaves it in the buffer.
RequestTails ==
    { <<QUOTE, "G", SP, "/", "u", SP, "H", QUOTE, NL>>,
      <<QUOTE, "G", SP, "/", "u", SP, "H", QUOTE>>,
      <<QUOTE, "G", SP, "/", "u">>,
      <<QUOTE, "G", SP, "/", "u", NL>>,
      <<QUOTE, "G", SP, "/", "u", SP, "H", NL>>,
      <<QUOTE>>,
      <<QUOTE, NL>>,
      <<QUOTE, QUOTE>>,
      <<"G", SP, "/", "u", SP, "H", QUOTE>>,
      <<QUOTE, "G", SP, "/", "u", SP, "H", QUOTE, SP, "z", NL>>,
      <<QUOTE, "G", QUOTE, NL>>,
      <<>>,
      <<NL>> }

SampleTail ==
    <<"{", "a", "|", "b", "}", SP, "{", "c", "}", SP>>
    \o <<QUOTE, "G", SP, "/", "u", SP, "H", QUOTE, NL>>

LineSet ==
    { p \o SampleTail : p \in Prefixes }
    \cup { SamplePrefix \o c \o r : c \in CaptureTails, r \in RequestTails }
    \cup { EmptyFieldsPrefix \o c \o r : c \in CaptureTails, r \in RequestTails }

----------------------------------------------------------------------------
(* The states of the parts a specification leaves alone *)

NoArgs == [flag_fields |-> <<>>, flag_delimiter |-> <<>>,
           flag_help_fields |-> FALSE, flag_show_invalid |-> FALSE]

NoOp == [op |-> "", arg |-> "", before |-> <<>>, ok |-> TRUE, ret |-> <<>>,
         err |-> None]

MainIdle ==
    /\ pc = "lib"
    /\ argv = NoArgs
    /\ args = None
    /\ eof = FALSE
    /\ stdout = <<>>
    /\ stderr = <<>>
    /\ written = <<>>
    /\ input = <<>>

mainVars == <<pc, argv, args, eof, stdout, stderr, written, input>>

---------------------------------------------------------------------------------------------------------------------------------------------------
(* The library on one buffer: LogEntry::from_bytes, and a Slicer's methods *)

\* The bytes of the short buffers a Slicer is tried on, and their greatest length.
SlicerBytes == {":", SP, QUOTE}
MaxBufLen == 4

ShortBufs == UNION { [1..n -> SlicerBytes] : n \in 0..MaxBufLen }

\* The delimiters and literals from_bytes passes to the Slicer, and the empty one.
Delims == {"[", ":", SP, QUOTE}
Literals == { <<>>, <<":", SP>>, <<"[">>, <<SP>>, <<"{">>, <<QUOTE>> }

InitParse ==
    /\ MainIdle
    /\ line_buffer \in LineSet \cup ShortBufs
    /\ result = None
    /\ slicer = Slicer_new(line_buffer)
    /\ lastOp = NoOp

FromBytes ==
    /\ result = None
    /\ result' = from_bytes(line_buffer)
    /\ UNCHANGED <<mainVars, line_buffer, slicer, lastOp>>

\* A Slicer call on the Slicer under test, with what it returned.
Called(op, arg, r) ==
    [op |-> op, arg |-> arg, before |-> slicer.buffer,
     ok |-> r.ok, ret |-> r.ret, err |-> r.err]

SliceTo ==
    /\ Len(line_buffer) <= MaxBufLen
    /\ \E delim \in Delims :
           /\ slicer' = slice_to(slicer, delim).slicer
           /\ lastOp' = Called("slice_to", delim, slice_to(slicer, delim))
    /\ UNCHANGED <<mainVars, line_buffer, result>>

SliceToOrRemainder ==
    /\ Len(line_buffer) <= MaxBufLen
    /\ \E delim \in Delims :
           /\ slicer' = slice_to_or_remainder(slicer, delim).slicer
           /\ lastOp' = Called("slice_to_or_remainder", delim,
                               slice_to_or_remainder(slicer, delim))
    /\ UNCHANGED <<mainVars, line_buffer, result>>

Discard ==
    /\ Len(line_buffer) <= MaxBufLen
    /\ \E s \in Literals :
           /\ slicer' = discard(slicer, s).slicer
           /\ lastOp' = Called("discard", s, discard(slicer, s))
    /\ UNCHANGED <<mainVars, line_buffer, result>>

NextParse ==
    \/ FromBytes
    \/ SliceTo
    \/ SliceToOrRemainder
    \/ Discard

SpecParse == InitParse /\ [][NextParse]_vars

----------------------------------------------------------------------------
(* What a line is, read by byte positions in the whole line *)

Then(member, term) == [member |-> member, term |-> term]

\* The fields of the fixed prefix in order, each with the bytes consumed after it:
\* the delimiter that ends it, then the literal that must follow.
GrammarWith(afterPid) ==
    << Then("process_name", <<"[">>),
       Then("pid", afterPid),
       Then("client_ip", <<":">>),
       Then("client_port", <<SP, "[">>),
       Then("accept_date", <<"]", SP>>),
       Then("frontend_name", <<SP>>),
       Then("backend_name", <<"/">>),
       Then("server_name", <<SP>>),
       Then("request_time", <<"/">>),
       Then("queue_time", <<"/">>),
       Then("connect_time", <<"/">>),
       Then("response_time", <<"/">>),
       Then("total_time", <<SP>>),
       Then("status_code", <<SP>>),
       Then("bytes_read", <<SP>>),
       Then("captured_request_cookie", <<SP>>),
       Then("captured_response_cookie", <<SP>>),
       Then("termination_state", <<SP>>),
       Then("active_connections", <<"/">>),
       Then("frontend_connections", <<"/">>),
       Then("backend_connections", <<"/">>),
       Then("server_connections", <<"/">>),
       Then("retried_connections", <<SP>>),
       Then("server_queue", <<"/">>),
       Then("backend_queue", <<SP>>) >>

\* '] : ' after the pid, and ']: ' after the pid.
SpacedGrammar == GrammarWith(<<"]", SP, ":", SP>>)
TightGrammar == GrammarWith(<<"]", ":", SP>>)

Min(S) == CHOOSE x \in S : \A y \in S : x <= y

\* line holds the bytes lit from position pos on.
HasAt(line, pos, lit) ==
    /\ pos + Len(lit) - 1 <= Len(line)
    /\ \A i \in 1..Len(lit) : line[pos + i - 1] = lit[i]

\* The positions of byte d in line from pos on.
Hits(line, pos, d) == { p \in pos..Len(line) : line[p] = d }

\* Elements k.. of grammar g read from position pos of line: where the prefix
\* ends, or the element that is not there and the error that says so.
RECURSIVE Walk(_, _, _, _)
Walk(line, g, k, pos) ==
    IF k > Len(g)
    THEN [ok |-> TRUE, pos |-> pos, err |-> None]
    ELSE LET hits == Hits(line, pos, g[k].term[1])
         IN  IF hits = {}
             THEN [ok |-> FALSE, pos |-> pos, err |-> ExpectedToken(g[k].term[1])]
             ELSE IF ~HasAt(line, Min(hits), g[k].term)
             THEN [ok |-> FALSE, pos |-> pos, err |-> UnexpectedTokens]
             ELSE Walk(line, g, k + 1, Min(hits) + Len(g[k].term))

\* A capture block '{X} ' at position pos: X and where the block ends, or the
\* error of a block that is opened and not closed so.
BlockAt(line, pos) ==
    LET hits == Hits(line, pos + 1, "}")
    IN  IF hits = {}
        THEN [ok |-> FALSE, err |-> ExpectedToken("}"), text |-> <<>>, pos |-> pos]
        ELSE IF ~HasAt(line, Min(hits) + 1, <<SP>>)
        THEN [ok |-> FALSE, err |-> UnexpectedTokens, text |-> <<>>, pos |-> pos]
        ELSE [ok |-> TRUE, err |-> None,
              text |-> SubSeq(line, pos + 1, Min(hits) - 1), pos |-> Min(hits) + 2]

\* The capture blocks from position pos on: at most two, as many as open with '{'.
BlocksAt(line, pos) ==
    IF ~HasAt(line, pos, <<"{">>)
    THEN [ok |-> TRUE, err |-> None, blocks |-> <<>>, pos |-> pos]
    ELSE LET b1 == BlockAt(line, pos)
         IN  IF ~b1.ok
             THEN [ok |-> FALSE, err |-> b1.err, blocks |-> <<>>, pos |-> pos]
             ELSE IF ~HasAt(line, b1.pos, <<"{">>)
             THEN [ok |-> TRUE, err |-> None, blocks |-> <<b1.text>>, pos |-> b1.pos]
             ELSE LET b2 == BlockAt(line, b1.pos)
                  IN  IF ~b2.ok
                      THEN [ok |-> FALSE, err |-> b2.err, blocks |-> <<b1.text>>,
                            pos |-> b1.pos]
                      ELSE [ok |-> TRUE, err |-> None,
                            blocks |-> <<b1.text, b2.text>>, pos |-> b2.pos]

\* The whole line under grammar g: where it stops matching ("prefix", "blocks",
\* "quote") and with what error, or "" and the positions of its parts.
Reading(line, g) ==
    LET w == Walk(line, g, 1, 1)
        b == BlocksAt(line, w.pos)
    IN  IF ~w.ok
        THEN [stops |-> "prefix", err |-> w.err, blocks |-> <<>>, quote |-> 0]
        ELSE IF ~b.ok
        THEN [stops |-> "blocks", err |-> b.err, blocks |-> b.blocks, quote |-> 0]
        ELSE IF ~HasAt(line, b.pos, <<QUOTE>>)
        THEN [stops |-> "quote", err |-> UnexpectedTokens, blocks |-> b.blocks,
              quote |-> 0]
        ELSE [stops |-> "", err |-> None, blocks |-> b.blocks, quote |-> b.pos]

RECURSIVE Concat(_)
Concat(ss) == IF ss = <<>> THEN <<>> ELSE Head(ss) \o Concat(Tail(ss))

\* The fixed fields of entry, each followed by what grammar g consumes after it.
Reassembled(entry, g) ==
    Concat([k \in 1..Len(g) |-> entry[g[k].member] \o g[k].term])

Bytes(s) == { s[i] : i \in 1..Len(s) }

Returned == result # None
Accepted == Returned /\ result.ok
Rejected == Returned /\ ~result.ok

----------------------------------------------------------------------------
(* Claims about the parser *)

\* C5: on every accepted line each of the 25 fixed fields is free of the
\* delimiter that ends it, and the fields with the delimiters and literals
\* consumed after them, in grammar order, are a prefix of the line: each field is
\* the bytes from the end of what was consumed before it to the first later
\* occurrence of its delimiter.
C5_FieldsAreTheRuns ==
    Accepted =>
        /\ \A k \in 1..Len(TightGrammar) :
               TightGrammar[k].term[1]
                   \notin Bytes(result.value[TightGrammar[k].member])
        /\ starts_with(line_buffer, Reassembled(result.value, TightGrammar))

\* C5's case: a line is accepted whose accept date holds '/' and ':' and whose
\* request cookie is two bytes long.
C5_Witness ==
    /\ Accepted
    /\ result.value["accept_date"] = <<"6", "/", "F", ":", "1">>
    /\ result.value["captured_request_cookie"] = <<"c", "i">>

\* C6 as stated, with '] : ' after the pid: a line is accepted exactly when it
\* supplies the listed delimiters and literals and a valid tail.
C6_SpacedColon ==
    Returned => (result.ok <=> Reading(line_buffer, SpacedGrammar).stops = "")

\* C6 amended, with ']: ' after the pid: a line is accepted exactly when it
\* supplies the delimiters and literals of the grammar, in order, and a valid tail
\* (no, one or two capture blocks, then the opening quote).
C6_TightColon ==
    Returned => (result.ok <=> Reading(line_buffer, TightGrammar).stops = "")

\* C6's cases: the sample line is accepted, and the line with '] : ' is rejected.
C6_Witness ==
    /\ Accepted
    /\ line_buffer = SamplePrefix \o SampleTail

\* C7: a line that lacks a delimiter or literal of the fixed prefix, or the
\* opening quote, is rejected with the splitter error of the first step that
\* failed, wrapped in Error::SliceError, and yields no entry; an accepted line
\* yields an entry with all 27 members.
C7_ErrorOfFirstFailedStep ==
    Returned =>
        /\ Reading(line_buffer, TightGrammar).stops \in {"prefix", "quote"} =>
               /\ ~result.ok
               /\ result.value = None
               /\ result.err =
                      [variant |-> "SliceError",
                       inner |-> Reading(line_buffer, TightGrammar).err]
        /\ result.ok => DOMAIN result.value = LogEntryMembers
        /\ ~result.ok => result.value = None

\* C7's case: the sample line without the ']' after the pid is rejected.
C7_Witness ==
    /\ Rejected
    /\ line_buffer = Delete(SamplePrefix, 5) \o SampleTail
    /\ result.err.inner = UnexpectedTokens

\* C8: on an accepted line the capture blocks fill the slots in order: no block,
\* both slots empty; one block, slot 0 holds it and slot 1 is empty; two blocks,
\* slot 0 the first and slot 1 the second.
C8_CapturesArePositional ==
    Accepted =>
        LET blocks == Reading(line_buffer, TightGrammar).blocks
        IN  /\ Len(blocks) = 0 => result.value["captures"] = << <<>>, <<>> >>
            /\ Len(blocks) = 1 => result.value["captures"] = << blocks[1], <<>> >>
            /\ Len(blocks) = 2 => result.value["captures"] = << blocks[1], blocks[2] >>

\* C8's case: a line with the one block '{a|b} ' is accepted.
C8_Witness ==
    /\ Accepted
    /\ Reading(line_buffer, TightGrammar).blocks = << <<"a", "|", "b">> >>

\* C9: slice_to_or_remainder never fails; where the delimiter occurs it returns
\* the bytes before its first occurrence and leaves the cursor after it, where it
\* does not it returns the whole remaining buffer and leaves the cursor empty.
\* So on an accepted line http_request is the bytes after the opening quote up to
\* the next quote, or to the end of the buffer when there is none.
C9_RequestOrRemainder ==
    /\ lastOp.op = "slice_to_or_remainder" =>
           LET hits == Hits(lastOp.before, 1, lastOp.arg)
           IN  /\ lastOp.ok
               /\ hits # {} =>
                      /\ lastOp.ret = SubSeq(lastOp.before, 1, Min(hits) - 1)
                      /\ slicer.buffer =
                             SubSeq(lastOp.before, Min(hits) + 1, Len(lastOp.before))
               /\ hits = {} =>
                      /\ lastOp.ret = lastOp.before
                      /\ slicer.buffer = <<>>
    /\ Accepted =>
           LET open == Reading(line_buffer, TightGrammar).quote
               hits == Hits(line_buffer, open + 1, QUOTE)
           IN  result.value["http_request"] =
                   IF hits # {}
                   THEN SubSeq(line_buffer, open + 1, Min(hits) - 1)
                   ELSE SubSeq(line_buffer, open + 1, Len(line_buffer))

\* C9's case: a line whose request line is not closed is accepted, the request
\* running to the line's newline.
C9_Witness ==
    /\ Accepted
    /\ result.value["http_request"] = <<"G", SP, "/", "u", NL>>

----------------------------------------------------------------------------
(* Claims about the Slicer *)

\* s is what is left of whole when some of its leading bytes are taken off.
IsSuffix(s, whole) ==
    /\ Len(s) <= Len(whole)
    /\ s = SubSeq(whole, Len(whole) - Len(s) + 1, Len(whole))

\* C13: slice_to(d) on the remaining buffer R returns, where d occurs in R, the
\* bytes before the first d, free of d, and leaves the bytes after that d, so that
\* the slice, d and the new remainder make up R; where d does not occur it
\* returns ExpectedToken(d) and leaves R. The remaining buffer is always a suffix
\* of the original buffer.
C13_SliceToFirstOccurrence ==
    /\ lastOp.op = "slice_to" =>
           IF lastOp.arg \in Bytes(lastOp.before)
           THEN /\ lastOp.ok
                /\ lastOp.ret \o <<lastOp.arg>> \o slicer.buffer = lastOp.before
                /\ lastOp.arg \notin Bytes(lastOp.ret)
                /\ Len(lastOp.ret) = Min(Hits(lastOp.before, 1, lastOp.arg)) - 1
           ELSE /\ ~lastOp.ok
                /\ lastOp.err = ExpectedToken(lastOp.arg)
                /\ slicer.buffer = lastOp.before
    /\ IsSuffix(slicer.buffer, line_buffer)

\* C13's case: slice_to found its delimiter in a buffer that holds it twice, with
\* a byte before the first.
C13_Witness ==
    /\ lastOp.op = "slice_to"
    /\ lastOp.ok
    /\ Cardinality(Hits(lastOp.before, 1, lastOp.arg)) = 2
    /\ lastOp.ret # <<>>

\* C14: discard(p) succeeds exactly when the remaining buffer R starts with p,
\* and then leaves R without its first len(p) bytes (all of R for the empty p);
\* when it fails it returns UnexpectedTokens and leaves R, also where R shares a
\* proper prefix with p or is shorter than p. No Slicer call that fails moves the
\* cursor.
C14_DiscardAllOrNothing ==
    /\ lastOp.op = "discard" =>
           /\ lastOp.ok <=> HasAt(lastOp.before, 1, lastOp.arg)
           /\ lastOp.ok =>
                  /\ Len(slicer.buffer) = Len(lastOp.before) - Len(lastOp.arg)
                  /\ lastOp.arg \o slicer.buffer = lastOp.before
           /\ ~lastOp.ok => lastOp.err = UnexpectedTokens
    /\ (lastOp.op # "" /\ ~lastOp.ok) => slicer.buffer = lastOp.before

\* C14's case: discard(": ") failed on a buffer that starts with ':' and goes on
\* with another byte than ' '.
C14_Witness ==
    /\ lastOp.op = "discard"
    /\ ~lastOp.ok
    /\ lastOp.arg = <<":", SP>>
    /\ Len(lastOp.before) >= 2
    /\ lastOp.before[1] = ":"

----------------------------------------------------------------------------
(* Claims about the capture blocks *)

\* C15: where the fixed prefix ends the line either opens a block with '{' or
\* does not, and only the latter ends the blocks without an error. A block that is
\* opened must be closed: with no '}' after it the line fails with
\* ExpectedToken('}'), with a '}' that no space follows it fails with
\* UnexpectedTokens; the same holds for a second block opened after the first.
\* A third '{' after two blocks fails with UnexpectedTokens, at the opening
\* quote. Where no block is opened the line is accepted exactly when the opening
\* quote stands there.
C15_OpenedBlockMustClose ==
    (Returned /\ Walk(line_buffer, TightGrammar, 1, 1).ok) =>
        LET line == line_buffer
            p1 == Walk(line, TightGrammar, 1, 1).pos
            open1 == HasAt(line, p1, <<"{">>)
            close1 == Hits(line, p1 + 1, "}")
            whole1 == open1 /\ close1 # {} /\ HasAt(line, Min(close1) + 1, <<SP>>)
            p2 == Min(close1) + 2
            open2 == whole1 /\ HasAt(line, p2, <<"{">>)
            close2 == Hits(line, p2 + 1, "}")
            whole2 == open2 /\ close2 # {} /\ HasAt(line, Min(close2) + 1, <<SP>>)
            p3 == Min(close2) + 2
        IN  /\ ~open1 => (result.ok <=> HasAt(line, p1, <<QUOTE>>))
            /\ (open1 /\ close1 = {}) =>
                   result = Err(FromSliceError(ExpectedToken("}")))
            /\ (open1 /\ close1 # {} /\ ~whole1) =>
                   result = Err(FromSliceError(UnexpectedTokens))
            /\ (whole1 /\ ~open2) => (result.ok <=> HasAt(line, p2, <<QUOTE>>))
            /\ (open2 /\ close2 = {}) =>
                   result = Err(FromSliceError(ExpectedToken("}")))
            /\ (open2 /\ close2 # {} /\ ~whole2) =>
                   result = Err(FromSliceError(UnexpectedTokens))
            /\ (whole2 /\ HasAt(line, p3, <<"{">>)) =>
                   result = Err(FromSliceError(UnexpectedTokens))
            /\ (whole2 /\ ~HasAt(line, p3, <<"{">>)) =>
                   (result.ok <=> HasAt(line, p3, <<QUOTE>>))

\* C15's case: a line that opens a block after the fixed prefix and never
\* closes it, a well-formed request line following, is rejected for the '}'.
C15_Witness ==
    /\ Rejected
    /\ line_buffer = SamplePrefix \o <<"{", "a">>
                         \o <<QUOTE, "G", SP, "/", "u", SP, "H", QUOTE, NL>>
    /\ result.err.inner = ExpectedToken("}")

----------------------------------------------------------------------------
(* haproxy-cut on an input *)

Name(tag) == FieldNames[CHOOSE k \in 1..Len(FieldNames) : FieldNames[k].field = tag].name

Indexed(i, j) == Prefix \o i \o <<"]", "[">> \o j \o <<"]">>

\* items with d between each two of them.
RECURSIVE Joined(_, _)
Joined(items, d) ==
    IF items = <<>> THEN <<>>
    ELSE IF Len(items) = 1 THEN items[1]
    ELSE items[1] \o d \o Joined(Tail(items), d)

\* The -f arguments tried: lists that decode, with none, one and several fields
\* and a repeated one, and lists that do not.
FieldLists ==
    { <<>>,
      Name("ProcessId"),
      Name("HttpRequest"),
      Name("RequestTime") \o <<",">> \o Indexed(<<"0">>, <<"1">>) \o <<",">>
          \o Name("RequestTime"),
      Name("HttpVersion") \o <<",">> \o Indexed(<<"1">>, <<"0">>),
      Name("ProcessId") \o <<",", "x">>,
      Indexed(<<"2">>, <<"0">>),
      Name("ProcessId") \o <<",">> }

\* The -d arguments tried; the empty one is the default.
Delimiters == { <<>>, <<";">>, <<":", ":">>, <<NL>> }

Argvs ==
    [flag_fields : FieldLists, flag_delimiter : Delimiters,
     flag_help_fields : {FALSE}, flag_show_invalid : BOOLEAN]
    \cup {[NoArgs EXCEPT !.flag_help_fields = TRUE]}

\* The lines read_until may return: they end in '\n', but for the last of an
\* input that does not.
InputLines ==
    { SamplePrefix \o SampleTail,
      SamplePrefix \o <<QUOTE, "G", SP, "/", "u", NL>>,
      SamplePrefix \o <<"{", "a", "|", "b", "}", SP>>
          \o <<QUOTE, "G", SP, "/", "u", SP, "H", QUOTE>>,
      SamplePrefix \o <<QUOTE, "G", SP, "/", "u">>,
      EmptyFieldsPrefix \o <<QUOTE, QUOTE, NL>>,
      Delete(SamplePrefix, 5) \o SampleTail,
      <<NL>> }

\* The greatest number of lines read in a run.
MaxLines == 2

Init ==
    /\ pc = "args"
    /\ argv \in Argvs
    /\ args = None
    /\ eof = FALSE
    /\ line_buffer = <<>>
    /\ stdout = <<>>
    /\ stderr = <<>>
    /\ written = <<>>
    /\ input = <<>>
    /\ result = None
    /\ slicer = Slicer_new(<<>>)
    /\ lastOp = NoOp

\* One turn of the loop in which read_until returns a line.
ReadLine ==
    /\ pc = "loop"
    /\ ~eof
    /\ Len(input) < MaxLines
    /\ \E line \in InputLines :
           \E r \in {from_bytes(line)} :
               \E body \in {MatchEntry(r, line, args.value)} :
                   /\ line_buffer' = line
                   /\ input' = Append(input, line)
                   /\ eof' = (line[Len(line)] # NL)
                   /\ result' = r
                   /\ written' = body.out
                   /\ stdout' = stdout \o body.out
                   /\ stderr' = stderr \o body.diag
                   /\ pc' = IF body.panicked THEN "panicked" ELSE "loop"
    /\ UNCHANGED <<argv, args, slicer, lastOp>>

\* The turn in which read_until returns Ok(0): the loop breaks and main returns.
ReadEnd ==
    /\ pc = "loop"
    /\ line_buffer' = <<>>
    /\ result' = None
    /\ written' = <<>>
    /\ eof' = TRUE
    /\ pc' = "done"
    /\ UNCHANGED <<argv, args, stdout, stderr, input, slicer, lastOp>>

\* The turn in which read_until returns Err(_): the loop breaks as well.
ReadError ==
    /\ pc = "loop"
    /\ ~eof
    /\ line_buffer' = <<>>
    /\ result' = None
    /\ written' = <<>>
    /\ pc' = "done"
    /\ UNCHANGED <<argv, args, eof, stdout, stderr, input, slicer, lastOp>>

Next ==
    \/ Start
    \/ ReadLine
    \/ ReadEnd
    \/ ReadError

Spec == Init /\ [][Next]_vars

----------------------------------------------------------------------------
(* Field::decode and Fields::decode on one string *)

\* The pieces a name is put together from after its prefixes, the greatest
\* number of them, and the greatest number of prefixes and of closing brackets.
BodyPieces == { <<"0">>, <<"1">>, <<"2">>, <<"a">>, <<"+">>, <<"]", "[">>, <<"]">> }
MaxBody == 3
MaxRepeat == 2

Repeated(piece, n) == Concat([k \in 1..n |-> piece])

Bodies == { Concat(pieces) : pieces \in UNION { [1..n -> BodyPieces] : n \in 0..MaxBody } }

\* captured_header[ some times over, a body and some closing brackets; the fixed
\* names, whole and cut short or with a byte more; and the lists of FieldLists.
\* The names a list is put together from: two that decode, the empty one, and two
\* that fail, each with its own error; and the greatest number of them in a list.
Tokens ==
    { Name("ProcessId"), Name("RequestTime"), Indexed(<<"0">>, <<"1">>), <<>>,
      <<"x">>, Indexed(<<"2">>, <<"0">>) }
MaxTokens == 3

\* The lists of one to MaxTokens names, a comma between each two.
TokenLists ==
    { Joined(names, <<",">>) :
          names \in UNION { [1..n -> Tokens] : n \in 1..MaxTokens } }

NameSet ==
    { Repeated(Prefix, a) \o body \o Repeated(<<"]">>, b) :
          a \in 0..MaxRepeat, body \in Bodies, b \in 0..MaxRepeat }
    \cup { FieldNames[k].name : k \in 1..Len(FieldNames) }
    \cup { FieldNames[k].name \o <<"]">> : k \in 1..Len(FieldNames) }
    \cup { Truncate(FieldNames[k].name, Len(FieldNames[k].name)) : k \in 1..Len(FieldNames) }
    \cup { Truncate(Prefix, Len(Prefix)) }
    \cup FieldLists
    \cup TokenLists

InitDecode ==
    /\ pc = "lib"
    /\ argv \in { [NoArgs EXCEPT !.flag_fields = name] : name \in NameSet }
    /\ args = None
    /\ eof = FALSE
    /\ line_buffer = <<>>
    /\ stdout = <<>>
    /\ stderr = <<>>
    /\ written = <<>>
    /\ input = <<>>
    /\ result = None
    /\ slicer = Slicer_new(<<>>)
    /\ lastOp = NoOp

DecodeField ==
    /\ lastOp = NoOp
    /\ result' = Field_decode(argv.flag_fields)
    /\ lastOp' = [NoOp EXCEPT !.op = "Field::decode"]
    /\ UNCHANGED <<mainVars, line_buffer, slicer>>

DecodeFields ==
    /\ lastOp = NoOp
    /\ result' = Fields_decode(argv.flag_fields)
    /\ lastOp' = [NoOp EXCEPT !.op = "Fields::decode"]
    /\ UNCHANGED <<mainVars, line_buffer, slicer>>

NextDecode ==
    \/ DecodeField
    \/ DecodeFields

SpecDecode == InitDecode /\ [][NextDecode]_vars

----------------------------------------------------------------------------
(* Field::decode, LogEntry::from_bytes and extract_content_from on one name and
   one line *)

\* The greatest second index of the captured_header names tried.
MaxHeader == 2

DigitOf(n) == <<CHOOSE c \in DOMAIN Digits : Digits[c] = n>>

\* The 29 fixed names; captured_header[i][j] with the first index in and out of
\* range, and written +1; and names with a bracket or a prefix more.
ExtractNames ==
    { FieldNames[k].name : k \in 1..Len(FieldNames) }
    \cup { Indexed(i, DigitOf(j)) :
               i \in { <<"0">>, <<"1">>, <<"2">>, <<"+", "1">>, <<"1", "0">> },
               j \in 0..MaxHeader }
    \cup { Indexed(<<"1">>, <<"0">>) \o <<"]">>, Prefix \o Indexed(<<"0">>, <<"1">>) }

ExtractLines ==
    { SamplePrefix \o c \o r : c \in CaptureTails, r \in RequestTails }
    \cup { EmptyFieldsPrefix \o <<QUOTE, QUOTE, NL>> }

\* args holds what Field::decode returned for the name, result what from_bytes
\* returned for the line, written what extract_content_from returned.
InitExtract ==
    /\ pc = "lib"
    /\ argv \in { [NoArgs EXCEPT !.flag_fields = name] : name \in ExtractNames }
    /\ args = None
    /\ eof = FALSE
    /\ line_buffer \in ExtractLines
    /\ stdout = <<>>
    /\ stderr = <<>>
    /\ written = <<>>
    /\ input = <<>>
    /\ result = None
    /\ slicer = Slicer_new(line_buffer)
    /\ lastOp = NoOp

DecodeName ==
    /\ args = None
    /\ args' = Field_decode(argv.flag_fields)
    /\ UNCHANGED <<pc, argv, eof, line_buffer, stdout, stderr, written, input,
                   result, slicer, lastOp>>

ParseLine ==
    /\ result = None
    /\ result' = from_bytes(line_buffer)
    /\ UNCHANGED <<mainVars, line_buffer, slicer, lastOp>>

\* field.extract_content_from(&entry): both are borrowed immutably.
Extract ==
    /\ lastOp = NoOp
    /\ args # None /\ args.ok
    /\ result # None /\ result.ok
    /\ \E content \in {extract_content_from(args.value, result.value)} :
           /\ written' = content.bytes
           /\ pc' = IF content.panic THEN "panicked" ELSE pc
    /\ lastOp' = [NoOp EXCEPT !.op = "extract_content_from"]
    /\ UNCHANGED <<argv, args, eof, line_buffer, stdout, stderr, input, result,
                   slicer>>

NextExtract ==
    \/ DecodeName
    \/ ParseLine
    \/ Extract

SpecExtract == InitExtract /\ [][NextExtract]_vars

----------------------------------------------------------------------------
(* Claims about haproxy-cut *)

\* main reached its loop: the arguments decoded and --help-fields was not given.
Ran == args # None /\ args.ok /\ ~argv.flag_help_fields

Count(s, b) == Cardinality({ i \in 1..Len(s) : s[i] = b })

\* What each field of the decoded list extracts from entry, in the list's order.
Extracts(entry) ==
    [k \in 1..Len(args.value.flag_fields) |->
        extract_content_from(args.value.flag_fields[k], entry).bytes]

\* The configured delimiter, a tab when none is configured.
Configured == IF argv.flag_delimiter = <<>> THEN <<TAB>> ELSE argv.flag_delimiter

\* The line is one the grammar accepts, read by positions.
Reads(line) == Reading(line, TightGrammar).stops = ""

\* C1: with a delimiter free of newlines, what is written to stdout for an
\* accepted line holds exactly one '\n', its last byte, and the '\n' bytes on
\* stdout are as many as the accepted lines.
C1_OneNewlinePerLine ==
    (Ran /\ NL \notin Bytes(Configured)) =>
        /\ Accepted =>
               /\ Count(written, NL) = 1
               /\ written[Len(written)] = NL
        /\ Count(stdout, NL) = Cardinality({ k \in 1..Len(input) : Reads(input[k]) })

\* C2: what is written to stdout for an accepted line is what the fields of the
\* decoded list extract, in the list's order, with the configured delimiter (a
\* tab when it is empty) between each two of them and a '\n' after the last:
\* just '\n' for the empty list.
C2_FieldsJoinedByDelimiter ==
    (Ran /\ Accepted) =>
        written = Joined(Extracts(result.value), Configured) \o <<NL>>

\* C2's case: a line is accepted under a list of three fields, one of them
\* twice, and the default delimiter.
C2_Witness ==
    /\ Ran /\ Accepted
    /\ Len(args.value.flag_fields) = 3
    /\ args.value.flag_fields[1] = args.value.flag_fields[3]
    /\ argv.flag_delimiter = <<>>

\* C3: a rejected line writes nothing to stdout and leaves the loop running;
\* stdout holds the output of the accepted lines, in input order, and nothing
\* else, and stderr holds the rejected lines when --show-invalid is given and
\* nothing when it is not.
C3_RejectedLinesAreSkipped ==
    Ran =>
        /\ Rejected => written = <<>> /\ pc = "loop"
        /\ stdout = Concat([k \in 1..Len(input) |->
                       IF Reads(input[k])
                       THEN Joined(Extracts(from_bytes(input[k]).value), Configured)
                                \o <<NL>>
                       ELSE <<>>])
        /\ stderr = Concat([k \in 1..Len(input) |->
                       IF ~Reads(input[k]) /\ argv.flag_show_invalid
                       THEN input[k]
                       ELSE <<>>])

\* C3's case: an accepted line, then a rejected one, under --show-invalid.
C3_Witness ==
    /\ Ran /\ Rejected
    /\ Len(input) = 2
    /\ Reads(input[1])
    /\ argv.flag_show_invalid
    /\ stdout # <<>>

\* Every name of the list decodes.
AllDecode(field_names) ==
    \/ field_names = <<>>
    \/ \A k \in 1..Len(split(field_names, <<",">>)) :
           Field_decode(split(field_names, <<",">>)[k]).ok

\* C4: when a name of the field list does not decode the run ends while the
\* arguments are decoded, with no line read and nothing written; when a line has
\* been read, the whole list had decoded.
C4_DecodeFailsBeforeAnyLine ==
    /\ ~AllDecode(argv.flag_fields) =>
           /\ pc \in {"args", "exit"}
           /\ input = <<>> /\ line_buffer = <<>>
           /\ stdout = <<>> /\ stderr = <<>>
    /\ pc = "exit" => ~AllDecode(argv.flag_fields) /\ ~args.ok
    /\ input # <<>> => AllDecode(argv.flag_fields) /\ args.ok

\* C4's case: the run has ended on a list whose second name does not decode.
C4_Witness ==
    /\ pc = "exit"
    /\ argv.flag_fields = Name("ProcessId") \o <<",", "x">>

----------------------------------------------------------------------------
(* Claims about Field::decode *)

IsDigits(s) == s # <<>> /\ \A k \in 1..Len(s) : s[k] \in DOMAIN Digits

IsFixedName(name) == \E k \in 1..Len(FieldNames) : FieldNames[k].name = name

\* name is captured_header[<i>][<j>] with <i> and <j> decimal digits, and the
\* indices in it.
ShapeIndices(name) ==
    { ij \in (1..Len(name)) \X (1..Len(name)) :
          /\ ij[1] <= ij[2]
          /\ Len(name) = Len(Prefix) + ij[1] + 2 + (ij[2] - ij[1]) + 1
          /\ starts_with(name, Prefix)
          /\ IsDigits(SubSeq(name, Len(Prefix) + 1, Len(Prefix) + ij[1]))
          /\ HasAt(name, Len(Prefix) + ij[1] + 1, <<"]", "[">>)
          /\ IsDigits(SubSeq(name, Len(Prefix) + ij[1] + 3, Len(name) - 1))
          /\ name[Len(name)] = "]" }

FirstIndexOf(name, ij) == Decimal(SubSeq(name, Len(Prefix) + 1, Len(Prefix) + ij[1]))
SecondIndexOf(name, ij) == Decimal(SubSeq(name, Len(Prefix) + ij[1] + 3, Len(name) - 1))

\* C10: for a string that is none of the 29 fixed names, Field::decode returns
\* CapturedHeader(i, j) only for captured_header[<i>][<j>] with i <= 1, and an
\* error for every other string: the "unknown field" error when the string does
\* not start with captured_header[.
C10_ExactShapeOnly ==
    (lastOp.op = "Field::decode" /\ ~IsFixedName(argv.flag_fields)) =>
        /\ result.ok =>
               \E ij \in ShapeIndices(argv.flag_fields) :
                   /\ FirstIndexOf(argv.flag_fields, ij) <= 1
                   /\ result.value = CapturedHeader(FirstIndexOf(argv.flag_fields, ij),
                                                    SecondIndexOf(argv.flag_fields, ij))
        /\ ~starts_with(argv.flag_fields, Prefix) =>
               result = Err(<<"unknown field", argv.flag_fields>>)

----------------------------------------------------------------------------
(* Claims about Fields::decode and extract_content_from *)

\* The positions of byte sep in s, the number of runs it cuts s into, and the
\* k-th of them.
Cuts(s, sep) == { i \in 1..Len(s) : s[i] = sep }

PieceCount(s, sep) == Cardinality(Cuts(s, sep)) + 1

KthCut(s, sep, k) ==
    CHOOSE c \in Cuts(s, sep) : Cardinality({ d \in Cuts(s, sep) : d < c }) = k - 1

Piece(s, sep, k) ==
    SubSeq(s,
           IF k = 1 THEN 1 ELSE KthCut(s, sep, k - 1) + 1,
           IF k = PieceCount(s, sep) THEN Len(s) ELSE KthCut(s, sep, k) - 1)

\* C11: Fields::decode returns the empty list for the empty string; for any
\* other string it decodes the names between the commas from left to right and
\* returns one Field per name, in order and with repeats, or, when a name fails,
\* the error of the leftmost name that fails and no list. An empty name fails as
\* an unknown field.
C11_FieldsInOrderOrFirstError ==
    lastOp.op = "Fields::decode" =>
        LET names == argv.flag_fields
            n == PieceCount(names, ",")
            failing == { k \in 1..n : ~Field_decode(Piece(names, ",", k)).ok }
        IN  IF names = <<>>
            THEN result = Ok(<<>>)
            ELSE /\ failing = {} =>
                        /\ result.ok
                        /\ Len(result.value) = n
                        /\ \A k \in 1..n :
                               result.value[k] = Field_decode(Piece(names, ",", k)).value
                 /\ failing # {} =>
                        /\ ~result.ok
                        /\ result.value = None
                        /\ result.err = Field_decode(Piece(names, ",", Min(failing))).err
                 /\ \A k \in 1..n :
                        Piece(names, ",", k) = <<>> =>
                            /\ ~result.ok
                            /\ k = Min(failing) => result.err = <<"unknown field", <<>> >>

\* C11's case: a list of three names, the first decoding, the second failing for
\* its first index and the third an unknown field, fails with the second's error.
C11_Witness ==
    /\ lastOp.op = "Fields::decode"
    /\ argv.flag_fields =
           Joined(<<Name("ProcessId"), Indexed(<<"2">>, <<"0">>), <<"x">> >>, <<",">>)
    /\ ~result.ok
    /\ result.err = <<"captured_header: the first index must be 0 or 1">>

\* C12: a CapturedHeader(i, j) that Field::decode returns has i in {0, 1}; and
\* extract_content_from, on any Field that decode returns and any entry that
\* from_bytes returns, does not panic, leaves the entry as it was, and returns
\* the member named, the token asked for, or the empty slice where there is no
\* such token: j at or beyond the number of '|'-separated tokens of capture slot
\* i, fewer than 2 space-separated tokens of the request line for http_uri, fewer
\* than 3 for http_version.
C12_ExtractionIsTotal ==
    /\ (args # None /\ args.ok /\ args.value.tag = "CapturedHeader") =>
           args.value.i \in {0, 1}
    /\ lastOp.op = "extract_content_from" =>
           /\ pc # "panicked"
           /\ result = from_bytes(line_buffer)
           /\ LET field == args.value
                  entry == result.value
                  request == entry["http_request"]
              IN  /\ field.tag \in DOMAIN MemberOf =>
                         written = entry[MemberOf[field.tag]]
                  /\ field.tag = "HttpMethod" => written = Piece(request, SP, 1)
                  /\ field.tag = "HttpUri" =>
                         written = IF PieceCount(request, SP) < 2
                                   THEN <<>>
                                   ELSE Piece(request, SP, 2)
                  /\ field.tag = "HttpVersion" =>
                         written = IF PieceCount(request, SP) < 3
                                   THEN <<>>
                                   ELSE Piece(request, SP, 3)
                  /\ field.tag = "CapturedHeader" =>
                         written =
                             IF field.j >= PieceCount(entry["captures"][field.i + 1], "|")
                             THEN <<>>
                             ELSE Piece(entry["captures"][field.i + 1], "|", field.j + 1)

\* C12's case: captured_header[0][2] extracted from an entry whose first capture
\* block is 'a|b' is the empty slice.
C12_Witness ==
    /\ lastOp.op = "extract_content_from"
    /\ args.value = CapturedHeader(0, 2)
    /\ result.value["captures"][1] = <<"a", "|", "b">>
    /\ written = <<>>
    /\ pc = "lib"

====
